---- MODULE Spec2Model ----
(***************************************************************************)
(* Holden Astra steering-wheel remote to JVC wired-remote bridge           *)
(* (astrajvcbridge.c, ATtiny85).  The model has two threads of control:    *)
(* the foreground loop of main() and the Timer1 compare-match interrupt.   *)
(* Every access of main() to a variable it shares with the interrupt is a  *)
(* separate step; the interrupt handler runs to completion.                *)
(***************************************************************************)
EXTENDS Integers, Sequences, FiniteSets, TLC

VARIABLES
    tick,           \* volatile unsigned char tick
    ien,            \* global interrupt enable (SREG I bit): sei()/cli()
    pending,        \* Timer1 compare-match A interrupt flag
    cDebounce,      \* debounceData cDebounce
    cCombined,      \* volatile unsigned char cCombined
    cCombinedLast,  \* volatile unsigned char cCombinedLast
    decodedValue,   \* uint8_t decodedValue
    adcVal,         \* main(): uint16_t adcVal, the last conversion result
    JVC,            \* level of the output line PORTB0 (1 = released/high)
    pc,             \* position of the foreground code
    sw,             \* value of cCombined the switch statement dispatched on
    cmd,            \* JVCCommand(): parameter cmd
    i,              \* JVCCommand(): frame counter i
    k,              \* JVCCommand(): index of the PLE call within the frame
    val,            \* JVCPulseLengthEncoding(): parameter val
    count,          \* waitForTick(): remaining count
    ret,            \* waitForTick(): where the caller continues
    txret,          \* JVCCommand(): where the caller continues
    \* Observers (history variables; the program never reads them)
    nominal,        \* the timer period is longer than a pass of main()
    obs,            \* which group of observers is recording
    wave,           \* line level at every tick consumed by the current JVCCommand
    pleWave,        \* line level at every tick consumed by the current PLE call
    req,            \* command of the current JVCCommand call, -1 when none
    since,          \* timer periods since a volume command was sent, -1 when none
    edgeBtn,        \* Source/Aux value of the latest committed press, 0 when none
    edgeOpen,       \* that press is still the debounced value
    edgeSends,      \* JVCCommand calls with that button's code since its commit
    lastTx,         \* command of the latest JVCCommand call, 0 when none
    after,          \* samples taken since that call: "none", "idle" or "other"
    runTicks,       \* interrupts since decodedValue took its present value
    runSpan,        \* runTicks at the latest sample of the present run
    tPrev,          \* value before the present run if it was the debounced one
    tX,             \* value of a transient the input has just returned from
    got,            \* value main()'s getDebounced call returned in this pass
    passCmds,       \* commands JVCCommand was called with in this pass
    asked,          \* count the current or latest waitForTick call was entered with
    excess,         \* interrupts served since that call was entered, less the
                    \* ticks it has consumed
    entryTick,      \* value of the tick flag when that call was entered
    lost,           \* an interrupt found the flag still set during that call
    waited,         \* fired when that call returned, -1 before it returns
    midPeriod       \* an ADC conversion has run since the latest interrupt

prog == <<tick, ien, pending, cDebounce, cCombined, cCombinedLast, decodedValue,
          adcVal, JVC, pc, sw, cmd, i, k, val, count, ret, txret>>

----------------------------------------------------------------------------
(* Program constants *)

CAR_IDLE  == 910
CAR_SOUND == 391
CAR_VOLDN == 157
CAR_VOLUP == 269
CAR_UPARR == 780
CAR_BKARR == 648
CAR_FDARR == 516

JVC_VOLUP   == 4
JVC_VOLDN   == 5
JVC_SOUND   == 13
JVC_SRC     == 8
JVC_SKIPBK  == 17
JVC_SKIPFD  == 18
JVC_SKIPBKH == 19
JVC_SKIPFDH == 20

VAL_IDLE    == 0
VAL_VOLUP   == 1
VAL_VOLDN   == 2
VAL_SRC     == 3
VAL_SEEKFWD == 4
VAL_SEEKBK  == 5
VAL_SOUND   == 6

TolleranceWide == 30 + 31  \* Mutant: windows wide enough to overlap
TOLLERANCE == 30

DebounceTicks == 5      \* initDebounce(&cDebounce, 5, VAL_IDLE, 0)
CooldownTicks == 400    \* waitForTick(400UL) after a volume command
JVC_ADDRESS   == 71     \* JVC7BitByte(0x47)
FramesShort   == 3 - 1  \* Mutant: for (int i = 1; i < 3; i++)
Frames        == 3      \* for (int i = 1; i <= 3; i++)
AgcLowTicks   == 16     \* waitForTick(16)
AgcHighTicks  == 8      \* waitForTick(8)

Values == VAL_IDLE .. VAL_SOUND

----------------------------------------------------------------------------
(* Classifier *)

U16(x) == x % 65536

\* Mutant: the lower limit of the window is excluded
inRangeStrict(a, value, tollerance) ==
    LET chk   == value - tollerance
        lower == IF chk <= 0 THEN 0 ELSE U16(value - tollerance)
        upper == U16(value + tollerance)
    IN  a > lower /\ a <= upper

\* uint8_t inRange(uint16_t adcVal, uint16_t value, uint16_t tollerance)
inRange(a, value, tollerance) ==
    LET chk   == value - tollerance
        lower == IF chk <= 0 THEN 0 ELSE U16(value - tollerance)
        upper == U16(value + tollerance)
    IN  a >= lower /\ a <= upper

\* uint8_t DecodeAnalogue(uint16_t adcVal)
DecodeAnalogue(a) ==
    IF inRange(a, CAR_VOLUP, TOLLERANCE) THEN VAL_VOLUP
    ELSE IF inRange(a, CAR_VOLDN, TOLLERANCE) THEN VAL_VOLDN
    ELSE IF inRange(a, CAR_UPARR, TOLLERANCE) THEN VAL_SRC
    ELSE IF inRange(a, CAR_FDARR, TOLLERANCE) THEN VAL_SEEKFWD
    ELSE IF inRange(a, CAR_BKARR, TOLLERANCE) THEN VAL_SEEKBK
    ELSE IF inRange(a, CAR_SOUND, TOLLERANCE) THEN VAL_SOUND
    ELSE VAL_IDLE

\* Every result of a 10-bit conversion
AdcMax == 1023
AdcRange == 0 .. AdcMax

\* The conversion results the ADC delivers in the model: the measured value
\* of every button of the table in the header comment.
AdcSamples == {CAR_IDLE, CAR_SOUND, CAR_VOLDN, CAR_VOLUP, CAR_UPARR, CAR_BKARR, CAR_FDARR}

----------------------------------------------------------------------------
(* Debouncer (debounce.h) *)

\* initDebounce(&cDebounce, 5, VAL_IDLE, 0)
initDebounce(n, idle) ==
    [required |-> n, stable |-> idle, candidate |-> idle, age |-> 0]

\* The state of the debouncer after getDebounced(&d, input)
debounceStep(d, input) ==
    IF input = d.stable
    THEN [d EXCEPT !.candidate = d.stable, !.age = 0]
    ELSE IF input = d.candidate
         THEN IF d.age + 1 >= d.required
              THEN [d EXCEPT !.stable = d.candidate, !.age = 0]
              ELSE [d EXCEPT !.age = d.age + 1]
         ELSE [d EXCEPT !.candidate = input, !.age = 1]

\* The value getDebounced(&d, input) returns: the stable value after the call
getDebounced(d, input) == debounceStep(d, input).stable

----------------------------------------------------------------------------
(* Transmitter helpers *)

\* x & (1 << b) for a 7-bit mask bit b
BitAnd(x, b) == ((x \div (2 ^ b)) % 2) * (2 ^ b)

\* Mutant: the bytes are sent most significant bit first
PleArgMsbFirst(c, n) ==
    IF n = 0 THEN 1
    ELSE IF n <= 7 THEN BitAnd(JVC_ADDRESS, 7 - n)
    ELSE IF n <= 14 THEN BitAnd(c, 14 - n)
    ELSE 1

\* The argument of the k-th JVCPulseLengthEncoding call of a frame:
\* start bit, JVC7BitByte(0x47), JVC7BitByte(cmd), two stop bits
PleArg(c, n) ==
    IF n = 0 THEN 1
    ELSE IF n <= 7 THEN BitAnd(JVC_ADDRESS, n - 1)
    ELSE IF n <= 14 THEN BitAnd(c, n - 8)
    ELSE 1

LastPle == 16

----------------------------------------------------------------------------
(* State after construction: globals as initialised, main() has run its    *)
(* set-up up to sei() and is at the top of while(1).                       *)

Init ==
    /\ tick = 0
    /\ ien = TRUE
    /\ pending = FALSE
    /\ cDebounce = initDebounce(DebounceTicks, VAL_IDLE)
    /\ cCombined = 0
    /\ cCombinedLast = 0
    /\ decodedValue = VAL_IDLE
    /\ adcVal = CAR_IDLE
    /\ JVC = 1
    /\ pc = "poll"
    /\ sw = VAL_IDLE
    /\ cmd = 0
    /\ i = 0
    /\ k = 0
    /\ val = 0
    /\ count = 0
    /\ ret = "poll"
    /\ txret = "poll"

----------------------------------------------------------------------------
(* Observers.  Each group records only under its own specification, so   *)
(* that a specification carries the history its properties read and no     *)
(* other.  ev names the step that was taken.                               *)

wireVars  == <<wave, pleWave, req, since>>
pressVars == <<edgeBtn, edgeOpen, edgeSends, lastTx, after>>
debVars   == <<runTicks, runSpan, tPrev, tX>>
passVars  == <<got, passCmds>>
tickVars  == <<asked, excess, entryTick, lost, waited, midPeriod>>

ghost == <<nominal, obs, wave, pleWave, req, since, edgeBtn, edgeOpen, edgeSends,
           lastTx, after, runTicks, runSpan, tPrev, tX, got, passCmds,
           asked, excess, entryTick, lost, waited, midPeriod>>

vars == <<prog, ghost>>

NoHistory ==
    /\ wave = <<>> /\ pleWave = <<>> /\ req = -1 /\ since = -1
    /\ edgeBtn = 0 /\ edgeOpen = FALSE /\ edgeSends = 0
    /\ lastTx = 0 /\ after = "none"
    /\ runTicks = 0 /\ runSpan = 0 /\ tPrev = -1 /\ tX = -1
    /\ got = VAL_IDLE /\ passCmds = <<>>
    /\ asked = 0 /\ excess = 0 /\ entryTick = 0 /\ lost = FALSE /\ waited = -1
    /\ midPeriod = FALSE

\* Cap of the counter of edge-code sends
MaxSends == 2

Min(a, b) == IF a <= b THEN a ELSE b

\* The step just taken called JVCCommand from the dispatcher
Called == pc \in {"switch", "cmp"} /\ pc' = "JVCCommand"

\* The step just taken changed the debounced value
Committed == cDebounce'.stable # cDebounce.stable

\* A tick consumed inside JVCCommand (the cooldown returns to "store")
TxWait == ret # "store"

\* The tick that ends the second stop bit of the last frame
LastTxTick == ret = "ple_ret" /\ count = 1 /\ k = LastPle /\ i = Frames

ObserveWire(ev) ==
    /\ wave' = CASE ev = "dispatch" /\ Called -> <<>>
                 [] ev = "wait" /\ TxWait -> Append(wave, JVC)
                 [] ev \in {"cool", "store"} -> <<>>
                 [] OTHER -> wave
    /\ pleWave' = CASE ev = "ple_low" -> <<>>
                    [] ev = "wait" /\ ret \in {"ple_high", "ple_if", "ple_ret"} ->
                           Append(pleWave, JVC)
                    [] ev = "next" -> <<>>
                    [] OTHER -> pleWave
    /\ req' = CASE ev = "dispatch" /\ Called -> cmd'
                [] ev \in {"cool", "store"} -> -1
                [] OTHER -> req
    /\ since' = CASE ev = "wait" /\ LastTxTick /\ txret = "cool" -> 0
                  [] ev = "isr" /\ since >= 0 /\ tick = 0 -> Min(CooldownTicks, since + 1)
                  [] ev = "sample" -> -1
                  [] OTHER -> since

EdgeCode(b) == IF b = VAL_SRC THEN JVC_SRC ELSE IF b = VAL_SOUND THEN JVC_SOUND ELSE 0

ObservePress(ev) ==
    /\ IF ev \in {"isr", "deb"} /\ Committed
       THEN IF cDebounce'.stable \in {VAL_SRC, VAL_SOUND}
            THEN edgeBtn' = cDebounce'.stable /\ edgeOpen' = TRUE /\ edgeSends' = 0
            ELSE edgeOpen' = FALSE /\ UNCHANGED <<edgeBtn, edgeSends>>
       ELSE IF ev = "dispatch" /\ Called /\ edgeBtn # 0 /\ cmd' = EdgeCode(edgeBtn)
            THEN edgeSends' = Min(MaxSends, edgeSends + 1) /\ UNCHANGED <<edgeBtn, edgeOpen>>
            ELSE UNCHANGED <<edgeBtn, edgeOpen, edgeSends>>
    /\ lastTx' = IF ev = "reset" /\ i = 1 THEN cmd ELSE lastTx
    /\ after' = CASE ev = "reset" /\ i = 1 -> "none"
                  [] ev = "sample" ->
                        IF decodedValue' # VAL_IDLE \/ after = "other" THEN "other" ELSE "idle"
                  [] OTHER -> after

ObserveDebounce(ev) ==
    CASE ev = "isr" ->
            /\ runTicks' = Min(DebounceTicks, runTicks + 1)
            /\ UNCHANGED <<runSpan, tPrev, tX>>
      [] ev = "sample" /\ decodedValue' = decodedValue ->
            /\ runSpan' = runTicks
            /\ UNCHANGED <<runTicks, tPrev, tX>>
      [] ev = "sample" /\ decodedValue' # decodedValue ->
            /\ tX' = IF runSpan < DebounceTicks /\ tPrev = decodedValue'
                     THEN decodedValue ELSE -1
            /\ tPrev' = IF cDebounce.stable = decodedValue THEN decodedValue ELSE -1
            /\ runTicks' = 0
            /\ runSpan' = 0
      [] OTHER -> UNCHANGED debVars

ObservePass(ev) ==
    /\ got' = IF ev = "deb" THEN cCombined' ELSE got
    /\ passCmds' = CASE ev = "deb" -> <<>>
                     [] ev = "dispatch" /\ Called -> Append(passCmds, cmd')
                     [] OTHER -> passCmds

\* Cap of the count of interrupts not yet consumed
MaxExcess == 2

\* A step that enters waitForTick
Entered == pc # "wait" /\ pc' = "wait"

\* The step of waitForTick after which it returns
Leaves == pc = "wait" /\ pc' # "wait"

ObserveTicks(ev) ==
    /\ asked' = IF Entered THEN count' ELSE asked
    /\ excess' = CASE Entered -> 0
                  [] ev = "isr" /\ pc = "wait" -> Min(MaxExcess, excess + 1)
                  [] ev = "wait" -> excess - 1
                  [] OTHER -> excess
    /\ entryTick' = IF Entered THEN tick ELSE entryTick
    /\ lost' = CASE Entered -> FALSE
                [] ev = "isr" /\ pc = "wait" /\ tick = 1 -> TRUE
                [] OTHER -> lost
    /\ waited' = CASE Entered -> -1
                  [] ev = "wait" /\ Leaves -> asked + excess'
                  [] OTHER -> waited
    /\ midPeriod' = CASE ev = "sample" -> TRUE
                     [] ev = "isr" -> FALSE
                     [] OTHER -> midPeriod

Observe(ev) ==
    /\ obs' = obs
    /\ nominal' = nominal
    /\ IF obs = "wire" THEN ObserveWire(ev) ELSE UNCHANGED wireVars
    /\ IF obs = "press" THEN ObservePress(ev) ELSE UNCHANGED pressVars
    /\ IF obs = "debounce" THEN ObserveDebounce(ev) ELSE UNCHANGED debVars
    /\ IF obs = "pass" THEN ObservePass(ev) ELSE UNCHANGED passVars
    /\ IF obs = "ticks" THEN ObserveTicks(ev) ELSE UNCHANGED tickVars

----------------------------------------------------------------------------
(* Timer1 *)

\* The foreground code spins on the tick flag: if (tick == 1) in main(),
\* while (tick == 0) in waitForTick
Spinning == pc \in {"poll", "wait"} /\ tick = 0

\* The hardware sets the compare-match flag once per period.  With the
\* period as configured (528 us) and a pass of main() taking one ADC
\* conversion (208 us at prescaler 128), the period ends only while the
\* foreground code spins; without that assumption it may end anywhere.
TimerCompare ==
    /\ nominal => Spinning
    /\ pending' = TRUE
    /\ UNCHANGED <<tick, ien, cDebounce, cCombined, cCombinedLast, decodedValue,
                   adcVal, JVC, pc, sw, cmd, i, k, val, count, ret, txret>>
    /\ Observe("timer")

\* Mutant: the interrupt sets the tick flag and leaves the debouncer alone
TIMER1_COMPA_vect_TickOnly ==
    /\ pending /\ ien
    /\ pending' = FALSE
    /\ tick' = 1
    /\ UNCHANGED <<ien, cDebounce, cCombined, cCombinedLast, decodedValue,
                   adcVal, JVC, pc, sw, cmd, i, k, val, count, ret, txret>>
    /\ Observe("isr")

\* ISR(TIMER1_COMPA_vect)
TIMER1_COMPA_vect ==
    /\ pending /\ ien
    /\ pending' = FALSE
    /\ tick' = 1
    /\ cDebounce' = debounceStep(cDebounce, decodedValue)
    /\ cCombined' = getDebounced(cDebounce, decodedValue)
    /\ UNCHANGED <<ien, cCombinedLast, decodedValue,
                   adcVal, JVC, pc, sw, cmd, i, k, val, count, ret, txret>>
    /\ Observe("isr")

\* A pending, enabled interrupt is served before the next foreground instruction
Runs == ~(pending /\ ien)

----------------------------------------------------------------------------
(* waitForTick *)

\* Start waitForTick(n); the caller continues at r
Wait(n, r) == pc' = "wait" /\ count' = n /\ ret' = r

\* Mutant: the iteration does not wait for the flag
waitForTick_NoSpin ==
    /\ Runs
    /\ pc = "wait"
    /\ tick' = 0
    /\ count' = count - 1
    /\ pc' = IF count - 1 > 0 THEN "wait" ELSE ret
    /\ UNCHANGED <<ien, pending, cDebounce, cCombined, cCombinedLast, decodedValue,
                   adcVal, JVC, sw, cmd, i, k, val, ret, txret>>
    /\ Observe("wait")

\* One iteration of for (; count > 0; count--) { while (tick == 0); tick = 0; }
waitForTick ==
    /\ Runs
    /\ pc = "wait"
    /\ tick # 0
    /\ tick' = 0
    /\ count' = count - 1
    /\ pc' = IF count - 1 > 0 THEN "wait" ELSE ret
    /\ UNCHANGED <<ien, pending, cDebounce, cCombined, cCombinedLast, decodedValue,
                   adcVal, JVC, sw, cmd, i, k, val, ret, txret>>
    /\ Observe("wait")

----------------------------------------------------------------------------
(* JVCCommand *)

\* Mutant: every frame starts by reading and classifying the ADC again
JVCCommand_Reset_Samples ==
    /\ Runs
    /\ pc = "JVCCommand"
    /\ JVC' = 1
    /\ adcVal' = CAR_IDLE
    /\ decodedValue' = DecodeAnalogue(CAR_IDLE)
    /\ Wait(1, "agc_low")
    /\ UNCHANGED <<tick, ien, pending, cDebounce, cCombined, cCombinedLast,
                   sw, cmd, i, k, val, txret>>
    /\ Observe("reset")

\* Bus reset: line high, waitForTick(1)
JVCCommand_Reset ==
    /\ Runs
    /\ pc = "JVCCommand"
    /\ JVC' = 1
    /\ Wait(1, "agc_low")
    /\ UNCHANGED <<tick, ien, pending, cDebounce, cCombined, cCombinedLast,
                   decodedValue, adcVal, sw, cmd, i, k, val, txret>>
    /\ Observe("reset")

\* AGC: line low, waitForTick(16)
JVCCommand_AgcLow ==
    /\ Runs
    /\ pc = "agc_low"
    /\ JVC' = 0
    /\ Wait(AgcLowTicks, "agc_high")
    /\ UNCHANGED <<tick, ien, pending, cDebounce, cCombined, cCombinedLast,
                   decodedValue, adcVal, sw, cmd, i, k, val, txret>>
    /\ Observe("agc")

\* AGC: line high, waitForTick(8); then the start bit
JVCCommand_AgcHigh ==
    /\ Runs
    /\ pc = "agc_high"
    /\ JVC' = 1
    /\ k' = 0
    /\ val' = PleArg(cmd, 0)
    /\ Wait(AgcHighTicks, "ple_low")
    /\ UNCHANGED <<tick, ien, pending, cDebounce, cCombined, cCombinedLast,
                   decodedValue, adcVal, sw, cmd, i, txret>>
    /\ Observe("agc")

\* JVCPulseLengthEncoding: line low, waitForTick(1)
JVCPulseLengthEncoding_Low ==
    /\ Runs
    /\ pc = "ple_low"
    /\ JVC' = 0
    /\ Wait(1, "ple_high")
    /\ UNCHANGED <<tick, ien, pending, cDebounce, cCombined, cCombinedLast,
                   decodedValue, adcVal, sw, cmd, i, k, val, txret>>
    /\ Observe("ple_low")

\* Mutant: the second half of a bit leaves the line low
JVCPulseLengthEncoding_HighStuck ==
    /\ Runs
    /\ pc = "ple_high"
    /\ JVC' = 0
    /\ Wait(1, "ple_if")
    /\ UNCHANGED <<tick, ien, pending, cDebounce, cCombined, cCombinedLast,
                   decodedValue, adcVal, sw, cmd, i, k, val, txret>>
    /\ Observe("ple")

\* JVCPulseLengthEncoding: line high, waitForTick(1)
JVCPulseLengthEncoding_High ==
    /\ Runs
    /\ pc = "ple_high"
    /\ JVC' = 1
    /\ Wait(1, "ple_if")
    /\ UNCHANGED <<tick, ien, pending, cDebounce, cCombined, cCombinedLast,
                   decodedValue, adcVal, sw, cmd, i, k, val, txret>>
    /\ Observe("ple")

\* Mutant: the bit is tested against 1 instead of against zero
PleExtendOne(v) == v = 1

\* JVCPulseLengthEncoding: if (val != 0) waitForTick(2)
PleExtend(v) == v # 0

JVCPulseLengthEncoding_If ==
    /\ Runs
    /\ pc = "ple_if"
    /\ IF PleExtend(val)
       THEN Wait(2, "ple_ret")
       ELSE pc' = "ple_ret" /\ UNCHANGED <<count, ret>>
    /\ UNCHANGED <<tick, ien, pending, cDebounce, cCombined, cCombinedLast,
                   decodedValue, adcVal, JVC, sw, cmd, i, k, val, txret>>
    /\ Observe("ple")

\* Return of JVCPulseLengthEncoding into JVC7BitByte / JVCCommand: the next
\* bit, the next frame, or the return of JVCCommand (whose locals end there)
JVCCommand_Next ==
    /\ Runs
    /\ pc = "ple_ret"
    /\ IF k < LastPle
       THEN /\ k' = k + 1
            /\ val' = PleArg(cmd, k + 1)
            /\ pc' = "ple_low"
            /\ i' = i
       ELSE IF i < Frames
            THEN /\ i' = i + 1
                 /\ pc' = "JVCCommand"
                 /\ UNCHANGED <<k, val>>
            ELSE /\ pc' = txret
                 /\ i' = 0 /\ k' = 0 /\ val' = 0
    /\ UNCHANGED <<tick, ien, pending, cDebounce, cCombined, cCombinedLast,
                   decodedValue, adcVal, JVC, sw, cmd, count, ret, txret>>
    /\ Observe("next")

\* Call JVCCommand(c); the caller continues at r
Call(c, r) == pc' = "JVCCommand" /\ cmd' = c /\ i' = 1 /\ txret' = r

----------------------------------------------------------------------------
(* main(): one pass of while(1) *)

\* if (tick == 1)
Poll ==
    /\ Runs
    /\ pc = "poll"
    /\ tick = 1
    /\ pc' = "adc"
    /\ UNCHANGED <<tick, ien, pending, cDebounce, cCombined, cCombinedLast,
                   decodedValue, adcVal, JVC, sw, cmd, i, k, val, count, ret, txret>>
    /\ Observe("poll")

\* adcVal = ADCRead(); decodedValue = DecodeAnalogue(adcVal);
Sample(a) ==
    /\ Runs
    /\ pc = "adc"
    /\ adcVal' = a
    /\ decodedValue' = DecodeAnalogue(a)
    /\ pc' = "clr"
    /\ UNCHANGED <<tick, ien, pending, cDebounce, cCombined, cCombinedLast,
                   JVC, sw, cmd, i, k, val, count, ret, txret>>
    /\ Observe("sample")

\* tick = 0;
ClearTick ==
    /\ Runs
    /\ pc = "clr"
    /\ tick' = 0
    /\ pc' = "cli"
    /\ UNCHANGED <<ien, pending, cDebounce, cCombined, cCombinedLast, decodedValue,
                   adcVal, JVC, sw, cmd, i, k, val, count, ret, txret>>
    /\ Observe("clr")

\* Mutant: the interrupts stay enabled
Cli_Enabled ==
    /\ Runs
    /\ pc = "cli"
    /\ ien' = ien
    /\ pc' = "deb"
    /\ UNCHANGED <<tick, pending, cDebounce, cCombined, cCombinedLast, decodedValue,
                   adcVal, JVC, sw, cmd, i, k, val, count, ret, txret>>
    /\ Observe("cli")

\* cli();
Cli ==
    /\ Runs
    /\ pc = "cli"
    /\ ien' = FALSE
    /\ pc' = "deb"
    /\ UNCHANGED <<tick, pending, cDebounce, cCombined, cCombinedLast, decodedValue,
                   adcVal, JVC, sw, cmd, i, k, val, count, ret, txret>>
    /\ Observe("cli")

\* cCombined = getDebounced(&cDebounce, decodedValue);
MainDebounce ==
    /\ Runs
    /\ pc = "deb"
    /\ cDebounce' = debounceStep(cDebounce, decodedValue)
    /\ cCombined' = getDebounced(cDebounce, decodedValue)
    /\ pc' = "sei"
    /\ UNCHANGED <<tick, ien, pending, cCombinedLast, decodedValue,
                   adcVal, JVC, sw, cmd, i, k, val, count, ret, txret>>
    /\ Observe("deb")

\* sei();
Sei ==
    /\ Runs
    /\ pc = "sei"
    /\ ien' = TRUE
    /\ pc' = "switch"
    /\ UNCHANGED <<tick, pending, cDebounce, cCombined, cCombinedLast, decodedValue,
                   adcVal, JVC, sw, cmd, i, k, val, count, ret, txret>>
    /\ Observe("sei")

\* Mutant: case VAL_IDLE sends the Source code
Switch_IdleSends ==
    /\ Runs
    /\ pc = "switch"
    /\ sw' = cCombined
    /\ CASE cCombined = VAL_VOLUP -> Call(JVC_VOLUP, "cool")
         [] cCombined = VAL_VOLDN -> Call(JVC_VOLDN, "cool")
         [] cCombined \in {VAL_SEEKFWD, VAL_SEEKBK, VAL_SRC, VAL_SOUND} ->
                pc' = "cmp" /\ UNCHANGED <<cmd, i, txret>>
         [] OTHER -> Call(JVC_SRC, "store")
    /\ UNCHANGED <<tick, ien, pending, cDebounce, cCombined, cCombinedLast,
                   decodedValue, adcVal, JVC, k, val, count, ret>>
    /\ Observe("dispatch")

\* switch (cCombined): the volume cases call JVCCommand at once, VAL_IDLE
\* breaks, the other cases go on to compare with cCombinedLast
Switch ==
    /\ Runs
    /\ pc = "switch"
    /\ sw' = cCombined
    /\ CASE cCombined = VAL_VOLUP -> Call(JVC_VOLUP, "cool")
         [] cCombined = VAL_VOLDN -> Call(JVC_VOLDN, "cool")
         [] cCombined \in {VAL_SEEKFWD, VAL_SEEKBK, VAL_SRC, VAL_SOUND} ->
                pc' = "cmp" /\ UNCHANGED <<cmd, i, txret>>
         [] OTHER -> pc' = "store" /\ UNCHANGED <<cmd, i, txret>>
    /\ UNCHANGED <<tick, ien, pending, cDebounce, cCombined, cCombinedLast,
                   decodedValue, adcVal, JVC, k, val, count, ret>>
    /\ Observe("dispatch")

\* The command of a case that tests if (cCombined != cCombinedLast):
\* 0 stands for no call
Dispatch(s, first) ==
    CASE s = VAL_SEEKFWD -> IF first THEN JVC_SKIPFD ELSE JVC_SKIPFD
      [] s = VAL_SEEKBK  -> IF first THEN JVC_SKIPBK ELSE JVC_SKIPBKH
      [] s = VAL_SRC     -> IF first THEN JVC_SRC ELSE 0
      [] s = VAL_SOUND   -> IF first THEN JVC_SOUND ELSE 0
      [] OTHER           -> 0

\* if (cCombined != cCombinedLast) ... else ...
Compare ==
    /\ Runs
    /\ pc = "cmp"
    /\ LET c == Dispatch(sw, cCombined # cCombinedLast)
       IN  IF c # 0
           THEN Call(c, "store")
           ELSE pc' = "store" /\ UNCHANGED <<cmd, i, txret>>
    /\ UNCHANGED <<tick, ien, pending, cDebounce, cCombined, cCombinedLast,
                   decodedValue, adcVal, JVC, sw, k, val, count, ret>>
    /\ Observe("dispatch")

\* Mutant: the cooldown is one tick short
CooldownShort ==
    /\ Runs
    /\ pc = "cool"
    /\ Wait(CooldownTicks - 1, "store")
    /\ UNCHANGED <<tick, ien, pending, cDebounce, cCombined, cCombinedLast,
                   decodedValue, adcVal, JVC, sw, cmd, i, k, val, txret>>
    /\ Observe("cool")

\* waitForTick(400UL); after JVCCommand(JVC_VOLUP) and JVCCommand(JVC_VOLDN)
Cooldown ==
    /\ Runs
    /\ pc = "cool"
    /\ Wait(CooldownTicks, "store")
    /\ UNCHANGED <<tick, ien, pending, cDebounce, cCombined, cCombinedLast,
                   decodedValue, adcVal, JVC, sw, cmd, i, k, val, txret>>
    /\ Observe("cool")

\* cCombinedLast = cCombined;
StoreLast ==
    /\ Runs
    /\ pc = "store"
    /\ cCombinedLast' = cCombined
    /\ pc' = "poll"
    /\ UNCHANGED <<tick, ien, pending, cDebounce, cCombined, decodedValue,
                   adcVal, JVC, sw, cmd, i, k, val, count, ret, txret>>
    /\ Observe("store")

----------------------------------------------------------------------------

Next ==
    \/ TimerCompare
    \/ TIMER1_COMPA_vect
    \/ Poll
    \/ \E a \in AdcSamples : Sample(a)
    \/ ClearTick
    \/ Cli
    \/ MainDebounce
    \/ Sei
    \/ Switch
    \/ Compare
    \/ Cooldown
    \/ StoreLast
    \/ JVCCommand_Reset
    \/ JVCCommand_AgcLow
    \/ JVCCommand_AgcHigh
    \/ JVCPulseLengthEncoding_Low
    \/ JVCPulseLengthEncoding_High
    \/ JVCPulseLengthEncoding_If
    \/ JVCCommand_Next
    \/ waitForTick

\* The program alone, the timer free to fire anywhere
InitFree == Init /\ NoHistory /\ obs = "none" /\ nominal = FALSE

Spec == InitFree /\ [][Next]_vars

\* JVCCommand called on its own with any 7-bit command
Harness(c) ==
    /\ tick = 0 /\ ien = TRUE /\ pending = FALSE
    /\ cDebounce = initDebounce(DebounceTicks, VAL_IDLE)
    /\ cCombined = 0 /\ cCombinedLast = 0
    /\ decodedValue = VAL_IDLE /\ adcVal = CAR_IDLE
    /\ JVC = 1 /\ sw = VAL_IDLE
    /\ pc = "JVCCommand" /\ cmd = c /\ i = 1 /\ txret = "done"
    /\ k = 0 /\ val = 0 /\ count = 0 /\ ret = "poll"

SevenBit == 0 .. 127

InitWire ==
    /\ obs = "wire"
    /\ nominal = FALSE
    /\ \/ Init /\ NoHistory
       \/ \E c \in SevenBit :
            /\ Harness(c)
            /\ wave = <<>> /\ pleWave = <<>> /\ req = c /\ since = -1
            /\ edgeBtn = 0 /\ edgeOpen = FALSE /\ edgeSends = 0
            /\ lastTx = 0 /\ after = "none"
            /\ runTicks = 0 /\ runSpan = 0 /\ tPrev = -1 /\ tX = -1
            /\ got = VAL_IDLE /\ passCmds = <<>>
            /\ asked = 0 /\ excess = 0 /\ entryTick = 0 /\ lost = FALSE /\ waited = -1
            /\ midPeriod = FALSE

\* The program, and JVCCommand on its own, with the line recorded
SpecWire == InitWire /\ [][Next]_vars

\* The program under the configured timing, presses and sends recorded
InitPress == Init /\ NoHistory /\ obs = "press" /\ nominal = TRUE

SpecPress == InitPress /\ [][Next]_vars

\* The program under the configured timing, runs of equal samples recorded
InitDebounce == Init /\ NoHistory /\ obs = "debounce" /\ nominal = TRUE

SpecDebounce == InitDebounce /\ [][Next]_vars

\* The program under the configured timing, each dispatcher pass recorded
InitPass == Init /\ NoHistory /\ obs = "pass" /\ nominal = TRUE

SpecPass == InitPass /\ [][Next]_vars

\* The program with the interrupts of every waitForTick call counted, the
\* timer either keeping the configured period or free to fire anywhere
InitTicks == Init /\ NoHistory /\ obs = "ticks" /\ nominal \in BOOLEAN

SpecTicks == InitTicks /\ [][Next]_vars

\* The steps of the foreground code
Foreground ==
    \/ Poll
    \/ \E a \in AdcSamples : Sample(a)
    \/ ClearTick
    \/ Cli
    \/ MainDebounce
    \/ Sei
    \/ Switch
    \/ Compare
    \/ Cooldown
    \/ StoreLast
    \/ JVCCommand_Reset
    \/ JVCCommand_AgcLow
    \/ JVCCommand_AgcHigh
    \/ JVCPulseLengthEncoding_Low
    \/ JVCPulseLengthEncoding_High
    \/ JVCPulseLengthEncoding_If
    \/ JVCCommand_Next
    \/ waitForTick

\* The timer keeps running, a pending enabled interrupt is served, and the
\* processor executes the foreground code whenever no interrupt is served
\* (at least one instruction between two interrupts)
Fairness ==
    /\ WF_vars(TimerCompare)
    /\ WF_vars(TIMER1_COMPA_vect)
    /\ SF_vars(Foreground)

InitLive == Init /\ NoHistory /\ obs = "none" /\ nominal = FALSE

SpecLive == InitLive /\ [][Next]_vars /\ Fairness

\* One classification: main() has seen the first tick and is about to read
\* the ADC, which may deliver any 10-bit result
InitClassify ==
    /\ tick = 1
    /\ ien = TRUE
    /\ pending = FALSE
    /\ cDebounce = initDebounce(DebounceTicks, VAL_IDLE)
    /\ cCombined = 0
    /\ cCombinedLast = 0
    /\ decodedValue = VAL_IDLE
    /\ adcVal = CAR_IDLE
    /\ JVC = 1
    /\ pc = "adc"
    /\ sw = VAL_IDLE
    /\ cmd = 0 /\ i = 0 /\ k = 0 /\ val = 0 /\ count = 0
    /\ ret = "poll"
    /\ txret = "poll"
    /\ NoHistory
    /\ obs = "none"
    /\ nominal = TRUE

NextClassify == \E a \in AdcRange : Sample(a)

SpecClassify == InitClassify /\ [][NextClassify]_vars
----------------------------------------------------------------------------
(* The wire format as the protocol states it, written without the code:    *)
(* what a receiver expects to see                                          *)

RECURSIVE Rep(_, _)
Rep(x, n) == IF n = 0 THEN <<>> ELSE <<x>> \o Rep(x, n - 1)

Bit(x, j) == (x \div (2 ^ j)) % 2

PopCount(x) == Bit(x, 0) + Bit(x, 1) + Bit(x, 2) + Bit(x, 3) + Bit(x, 4) + Bit(x, 5) + Bit(x, 6)

PleBit(b) == IF b = 1 THEN <<0, 1, 1, 1>> ELSE <<0, 1>>

Bits7(x) == PleBit(Bit(x, 0)) \o PleBit(Bit(x, 1)) \o PleBit(Bit(x, 2)) \o PleBit(Bit(x, 3))
            \o PleBit(Bit(x, 4)) \o PleBit(Bit(x, 5)) \o PleBit(Bit(x, 6))

FrameWave(c) == <<1>> \o Rep(0, 16) \o Rep(1, 8) \o PleBit(1) \o Bits7(71) \o Bits7(c)
                \o PleBit(1) \o PleBit(1)

Train(c) == FrameWave(c) \o FrameWave(c) \o FrameWave(c)

\* JVCCommand has returned to its caller and the recording is complete
Returned == req >= 0 /\ pc \in {"cool", "store", "done"}

\* C6: every JVCCommand(cmd) call drives the line, one sample per consumed
\* tick, through exactly three identical frames (1 high, 16 low, 8 high,
\* start bit, 7 address bits, 7 command bits, 2 stop bits) and nothing
\* else, in 3 * (73 + 2 * popcount(cmd & 0x7F)) ticks.
C6_ThreeFrames ==
    /\ req >= 0 => /\ Len(wave) <= Len(Train(req))
                   /\ wave = SubSeq(Train(req), 1, Len(wave))
    /\ Returned => /\ wave = Train(req)
                   /\ Len(wave) = 3 * (73 + 2 * PopCount(req % 128))

C6_Witness == pc = "cool" /\ req = JVC_VOLDN /\ Len(wave) = 231

\* What a receiver decodes: after each low tick, a high phase of 1 tick is a
\* 0 and one of 3 ticks is a 1; any other duration is no bit (-1)
RECURSIVE HighRun(_, _)
HighRun(w, p) == IF p <= Len(w) /\ w[p] = 1 THEN 1 + HighRun(w, p + 1) ELSE 0

RECURSIVE ParseBits(_, _)
ParseBits(w, p) ==
    IF p > Len(w) THEN <<>>
    ELSE IF w[p] # 0 THEN <<-1>>
    ELSE LET h == HighRun(w, p + 1)
         IN  <<(IF h = 3 THEN 1 ELSE IF h = 1 THEN 0 ELSE -1)>> \o ParseBits(w, p + 1 + h)

\* The bits of frame f (0..2) of a recorded train, after its 25-tick header
FrameBits(w, f) ==
    LET n == Len(w) \div 3
    IN  ParseBits(SubSeq(w, f * n + 1, (f + 1) * n), 26)

\* Seven bits from position p, least significant first
Seven(b, p) == b[p] + 2 * b[p + 1] + 4 * b[p + 2] + 8 * b[p + 3] + 16 * b[p + 4]
               + 32 * b[p + 5] + 64 * b[p + 6]

JvcCodes == {4, 5, 6, 13, 8, 17, 18, 19, 20}

TxPcs == {"JVCCommand", "agc_low", "agc_high", "ple_low", "ple_high", "ple_if", "ple_ret"}

\* The foreground code is inside JVCCommand
InTx == pc \in TxPcs \/ (pc = "wait" /\ ret # "store")

\* C7: decoding the 14 data bits of each emitted frame from the durations
\* of their high phases, least significant bit first, yields address 0x47
\* and the requested command, for every 7-bit command; and every command
\* the dispatcher requests is one of the nine JVC codes.
C7_RoundTrip ==
    /\ Returned =>
         \A f \in 0 .. 2 :
            LET b == FrameBits(wave, f)
            IN  /\ Len(b) = 17
                /\ \A n \in 1 .. 17 : b[n] \in {0, 1}
                /\ Seven(b, 2) = 71
                /\ Seven(b, 9) = req
    /\ (InTx /\ txret # "done") => cmd \in JvcCodes

C7_Witness == pc = "done" /\ req = 85 /\ Seven(FrameBits(wave, 2), 9) = 85

\* C8: JVCPulseLengthEncoding(val) drives the line low for exactly 1 tick and
\* then high for exactly 3 ticks when val is non-zero and for exactly 1 tick
\* when val is zero, for every mask value JVC7BitByte passes.
C8_PulseLength ==
    pc = "ple_ret" => pleWave = (IF val # 0 THEN <<0, 1, 1, 1>> ELSE <<0, 1>>)

C8_Witness == pc = "ple_ret" /\ val = 64 /\ pleWave = <<0, 1, 1, 1>>

\* C9: after a volume command has been sent, the dispatcher neither samples
\* nor sends until 400 further timer ticks have occurred, the line staying
\* high; a pass that dispatches on a volume value always sends that value's
\* code and then cools down.
C9_Cooldown ==
    /\ (since >= 0 /\ since < CooldownTicks) =>
          /\ JVC = 1
          /\ pc \in {"ple_ret", "cool", "wait"}
          /\ pc = "wait" => ret = "store"
    /\ (pc = "store" /\ sw \in {VAL_VOLUP, VAL_VOLDN}) => since >= CooldownTicks
    /\ (pc = "JVCCommand" /\ txret = "cool") =>
          cmd = (IF sw = VAL_VOLUP THEN JVC_VOLUP ELSE JVC_VOLDN)

C9_Witness == pc = "adc" /\ since = CooldownTicks /\ cCombinedLast = VAL_VOLUP
----------------------------------------------------------------------------
(* Presses and what is sent for them *)

\* JVCCommand has just been called by the dispatcher
JustCalled == pc = "JVCCommand" /\ i = 1

\* C1: every press-release cycle of Source (0x08) or Aux (0x0D) that the
\* debouncer commits causes exactly one JVCCommand call with that button's
\* code: never more than one, and, once the cycle is over and the
\* dispatcher has finished its pass, not zero.
C1_OncePerPress ==
    /\ edgeSends <= 1
    /\ (edgeBtn # 0 /\ ~edgeOpen /\ pc = "poll") => edgeSends = 1

\* C2: when the input is Idle at the first sampling pass after a volume
\* command and its cooldown, and stays Idle, no further volume command is
\* sent for that press.
C2_ReleasedVolumeSendsOnce ==
    ~(JustCalled /\ cmd \in {JVC_VOLUP, JVC_VOLDN} /\ lastTx = cmd /\ after = "idle")

\* C5: when SeekBackward is released before the SkipBack transmission has
\* finished, SkipBack is the only command sent for that press; SkipBackHeld
\* is sent only in a pass whose fresh sample classifies as SeekBackward.
C5_TapSendsSkipOnly ==
    /\ ~(JustCalled /\ lastTx = JVC_SKIPBK /\ after = "idle")
    /\ (InTx /\ cmd = JVC_SKIPBKH) => decodedValue = VAL_SEEKBK

----------------------------------------------------------------------------
(* Debouncing *)

\* The codes the dispatcher sends for a debounced value
CodesOf(v) ==
    CASE v = VAL_VOLUP   -> {JVC_VOLUP}
      [] v = VAL_VOLDN   -> {JVC_VOLDN}
      [] v = VAL_SRC     -> {JVC_SRC}
      [] v = VAL_SOUND   -> {JVC_SOUND}
      [] v = VAL_SEEKFWD -> {JVC_SKIPFD, JVC_SKIPFDH}
      [] v = VAL_SEEKBK  -> {JVC_SKIPBK, JVC_SKIPBKH}
      [] OTHER           -> {}

\* C3: when the input classifies to X for fewer than 5 ticks and then
\* returns to its previous (debounced) value, no JVCCommand carrying a code
\* of X is issued.
C3_TransientSuppressed ==
    ~(JustCalled /\ tX >= 0 /\ cmd \in CodesOf(tX))

\* C4: the debounced value changes only when the classified input has had
\* its value for 5 consecutive timer ticks, and the main loop's call of
\* getDebounced leaves the debouncer state as it was.
C4_FiveTicks ==
    [][/\ cDebounce'.stable # cDebounce.stable => runTicks' >= DebounceTicks
       /\ (pc = "deb" /\ pc' = "sei") => cDebounce' = cDebounce]_vars

----------------------------------------------------------------------------
(* The dispatcher *)

\* The dispatch table: the commands of a pass for debounced value v
Table(v, first) ==
    CASE v = VAL_VOLUP   -> <<4>>
      [] v = VAL_VOLDN   -> <<5>>
      [] v = VAL_SRC     -> IF first THEN <<8>> ELSE <<>>
      [] v = VAL_SOUND   -> IF first THEN <<13>> ELSE <<>>
      [] v = VAL_SEEKFWD -> <<18>>
      [] v = VAL_SEEKBK  -> IF first THEN <<17>> ELSE <<19>>
      [] OTHER           -> <<>>

\* C10: in every dispatcher pass the commands sent are those of the table
\* for the pass's debounced value and whether it differs from cCombinedLast
\* (at most one), and after the pass cCombinedLast holds the debounced value.
C10_DispatchTable ==
    /\ pc = "store" => passCmds = Table(got, got # cCombinedLast)
    /\ pc = "poll" => cCombinedLast = got
----------------------------------------------------------------------------
(* The idle level of the line *)

\* The end of a frame's stop bits, or the start of a frame's bus reset
FrameBoundary == pc = "JVCCommand" \/ (pc = "ple_ret" /\ k = LastPle)

\* C11: the output line is high whenever main() is not inside JVCCommand
\* (before the first command, between commands, during the cooldown), and
\* inside JVCCommand it is high at every frame boundary.
C11_IdleHigh ==
    /\ ~InTx => JVC = 1
    /\ FrameBoundary => JVC = 1

C11_Witness == pc = "JVCCommand" /\ i = 2 /\ JVC = 1 /\ cmd = JVC_VOLUP
----------------------------------------------------------------------------
(* The classifier *)

\* The reference classifier: the probing order, centres and tolerance as
\* the interface states them
RefTable == << <<269, VAL_VOLUP>>, <<157, VAL_VOLDN>>, <<780, VAL_SRC>>,
               <<516, VAL_SEEKFWD>>, <<648, VAL_SEEKBK>>, <<391, VAL_SOUND>> >>

RefLow(c) == IF c - 30 < 0 THEN 0 ELSE c - 30

RefIn(sample, c) == RefLow(c) <= sample /\ sample <= c + 30

RECURSIVE RefClassify(_, _)
RefClassify(sample, n) ==
    IF n > Len(RefTable) THEN VAL_IDLE
    ELSE IF RefIn(sample, RefTable[n][1]) THEN RefTable[n][2]
    ELSE RefClassify(sample, n + 1)

\* The ADC has been read and classified
Classified == pc = "clr"

\* C12: for every ADC value 0..1023 DecodeAnalogue returns the first button
\* in the order VolUp, VolDn, Source, SeekFwd, SeekBk, Sound whose window
\* max(0, c-30) .. c+30 holds the sample, and Idle when none does; each
\* button is returned on its centre, centre-1 and centre+1, and Idle on 910.
C12_Classifier ==
    Classified =>
        /\ decodedValue = RefClassify(adcVal, 1)
        /\ \A n \in 1 .. Len(RefTable) :
              adcVal \in (RefTable[n][1] - 1) .. (RefTable[n][1] + 1) =>
                  decodedValue = RefTable[n][2]
        /\ adcVal = 910 => decodedValue = VAL_IDLE

C12_Witness == Classified /\ adcVal = 239 /\ decodedValue = VAL_VOLUP

\* The centre the code probes for a button
Centre(b) ==
    CASE b = VAL_VOLUP   -> CAR_VOLUP
      [] b = VAL_VOLDN   -> CAR_VOLDN
      [] b = VAL_SRC     -> CAR_UPARR
      [] b = VAL_SEEKFWD -> CAR_FDARR
      [] b = VAL_SEEKBK  -> CAR_BKARR
      [] b = VAL_SOUND   -> CAR_SOUND

Buttons == Values \ {VAL_IDLE}

\* The buttons whose window holds the sample
Hits(a) == {b \in Buttons : inRange(a, Centre(b), TOLLERANCE)}

\* C13: the six windows built from the configured centres and TOLLERANCE
\* are pairwise disjoint: no ADC value lies in two of them, and the result
\* of DecodeAnalogue is the button of the one window that holds the sample
\* (Idle when there is none), whatever the order of probing.
C13_WindowsDisjoint ==
    Classified =>
        /\ Cardinality(Hits(adcVal)) <= 1
        /\ \A b \in Hits(adcVal) : decodedValue = b
        /\ Hits(adcVal) = {} => decodedValue = VAL_IDLE

C13_Witness == Classified /\ adcVal = 187 /\ Hits(adcVal) = {VAL_VOLDN}
----------------------------------------------------------------------------
(* Whole ticks *)

\* waitForTick has just returned from a wait of a frame phase
PhaseDone == waited >= 0 /\ ret # "store"

\* waitForTick has just been entered for a frame phase
PhaseStart == pc = "wait" /\ ret # "store" /\ count = asked /\ excess = 0 /\ ~pending

\* C14: waitForTick(n) entered with the tick flag clear returns only after
\* at least n interrupts since entry, and after exactly n when no interrupt
\* found the flag still set; and every phase of a frame, the first bus
\* reset of a send from the dispatcher included, spans the whole number of
\* ticks asked: it starts at a tick and sees that many interrupts.
C14_WholeTicks ==
    /\ (waited >= 0 /\ entryTick = 0) => waited >= asked
    /\ (waited >= 0 /\ entryTick = 0 /\ ~lost) => waited = asked
    /\ PhaseDone => waited >= asked
    /\ PhaseStart => ~midPeriod
----------------------------------------------------------------------------
(* Sampling is suspended while a command is sent *)

\* main() is inside JVCCommand or inside the cooldown after a volume command
Busy == InTx \/ pc = "cool" \/ (pc = "wait" /\ ret = "store")

\* The step is the interrupt handler: nothing else clears the interrupt flag
IsrStep == pending /\ ~pending'

\* C15: while a transmission or a volume cooldown is in progress no ADC
\* read happens and adcVal, decodedValue and cCombinedLast do not change;
\* the debouncer state and cCombined change only in the interrupt handler,
\* which on every tick feeds the debouncer the classification sampled
\* before the transmission started.
C15_SamplingSuspended ==
    [][Busy =>
         /\ adcVal' = adcVal
         /\ decodedValue' = decodedValue
         /\ cCombinedLast' = cCombinedLast
         /\ pc' \notin {"adc", "clr", "cli", "deb", "sei", "switch", "cmp"}
         /\ IF IsrStep
            THEN /\ tick' = 1
                 /\ cDebounce' = debounceStep(cDebounce, decodedValue)
                 /\ cCombined' = cDebounce'.stable
            ELSE cDebounce' = cDebounce /\ cCombined' = cCombined]_vars

C15_Witness == InTx /\ cCombined # sw /\ cCombined = decodedValue /\ cCombinedLast = sw
----------------------------------------------------------------------------
(* Termination *)

\* main() spins in waitForTick on a clear flag
Stuck == pc = "wait" /\ tick = 0

\* C16: with the timer firing, every waitForTick call and every JVCCommand
\* call returns and main() samples again and again; a wait on a clear flag
\* is left only by an interrupt setting the flag, so without the timer
\* main() stays in it and neither samples nor sends.
C16_Termination ==
    /\ []<>(pc # "wait")
    /\ []<>(~InTx)
    /\ []<>(pc = "adc")
    /\ [][Stuck => /\ pc' = "wait" /\ count' = count /\ JVC' = JVC
                   /\ adcVal' = adcVal /\ decodedValue' = decodedValue
                   /\ (tick' # 0 => IsrStep)]_vars

C16_Witness == pc = "store" /\ ret = "store" /\ count = 0 /\ sw = VAL_VOLDN
----------------------------------------------------------------------------
(* Quiescence *)

\* Nothing is pressed, nothing is being sent and nothing is left to send
Quiet ==
    /\ cCombined = VAL_IDLE
    /\ cCombinedLast = VAL_IDLE
    /\ JVC = 1
    /\ ~InTx
    /\ pc \notin {"cool", "cmp"}

\* C19: if from some point on every ADC sample classifies as Idle, and the
\* timer keeps firing, then from some point on cCombined and cCombinedLast
\* are Idle, the line is high and no JVCCommand is started.
C19_Quiescence == <>[](decodedValue = VAL_IDLE) => <>[]Quiet

C19_Witness == Quiet /\ pc = "poll" /\ cmd = JVC_SRC /\ decodedValue = VAL_IDLE
----------------------------------------------------------------------------
(* The critical section *)

\* main() is between cli() and sei(): about to call getDebounced, or back
\* from it
InCritical == pc \in {"deb", "sei"}

\* C17: main()'s getDebounced call runs with the interrupts disabled, the
\* interrupt handler never runs between cli() and sei(), and a compare
\* match that happens in between stays pending and is served after sei(),
\* before main() goes on.
C17_Exclusive ==
    [][/\ InCritical => ~ien
       /\ IsrStep => ~InCritical /\ ien
       /\ (cDebounce' # cDebounce /\ ~IsrStep) => pc = "deb" /\ ~ien
       /\ (pending /\ ~ien) => pending'
       /\ (pending /\ ien /\ ~IsrStep) => UNCHANGED prog]_vars

C17_Witness == pc = "switch" /\ pending /\ ien /\ tick = 0
----------------------------------------------------------------------------
(* One debounced value per pass *)

\* C18: within one dispatcher pass the value of cCombined the switch
\* selects on, the value compared with cCombinedLast and the value stored
\* into cCombinedLast all equal the value main()'s getDebounced call
\* returned in the critical section of that pass.
C18_SingleValue ==
    /\ pc \in {"cmp", "cool", "store"} => sw = got
    /\ pc = "cmp" => cCombined = got
    /\ pc = "store" => cCombined = got
----------------------------------------------------------------------------
(* The debounced value when a transmission ends *)

\* The step in which JVCCommand returns to its caller
ReturnStep == pc = "ple_ret" /\ k = LastPle /\ i = Frames /\ pc' = txret

\* C20: whenever a JVCCommand call returns, the debounced value cCombined
\* (and the debouncer's stable value) equals decodedValue, the
\* classification sampled in the pass that started the transmission.
C20_CommittedAtReturn ==
    [][ReturnStep => /\ cCombined' = decodedValue'
                     /\ cDebounce'.stable = decodedValue']_vars

C20_Witness ==
    /\ pc = "store" /\ ret = "ple_ret" /\ txret = "store"
    /\ cCombined = decodedValue /\ cCombined # sw
====
